---- MODULE Spec2Model ----
(***************************************************************************)
(* XEDA terminal agent (src/main.py): the plan executor of TerminalApp,    *)
(* the self-healing command runner, the planner's validation of a backend  *)
(* response, and the multi-backend dispatcher with its statistics.         *)
(*                                                                         *)
(* Abstractions.  A backend's text is modelled by its shape (the cases the *)
(* code distinguishes), a file by whether it exists, a shell command by    *)
(* its exit status and by the class of its stderr.  The blocking reads of  *)
(* user input are inputs of the action that performs them.  The plan loop  *)
(* and the dispatcher's walk over the adapters are split at the loop head: *)
(* pc and call.pos say where control is, and only the single next step of  *)
(* the code is enabled there.  The command runner is an operator over the  *)
(* outcomes of its attempts, applied in one step by the command branch.    *)
(*                                                                         *)
(* Six specifications share the variables.  Spec is the executor with     *)
(* the dispatcher at rest; SpecDispatch is the dispatcher with the         *)
(* executor at the prompt; SpecRunner is one command step whose runner     *)
(* advances one loop iteration at a time; SpecAdapter is the dispatcher's  *)
(* generate path over adapters that may hold no key, with each adapter     *)
(* call's tries and waits observed; SpecPlan is create_plan, the           *)
(* confidence gate and a restart over the fields of the plan data;         *)
(* SpecBand is the executor's loop over plans of up to MaxBandSteps steps  *)
(* that are counted or not, for the completion bands.                      *)
(* generate_content's force_engine is drawn from every adapter name        *)
(* although no caller in src/main.py passes it.                            *)
(***************************************************************************)
EXTENDS Integers, Sequences, FiniteSets, TLC

(***************************************************************************)
(* Bounds of the model.                                                    *)
(***************************************************************************)
MaxSteps == 2        \* longest plan a backend response carries
MaxRuns == 2         \* plan executions (workflow or replay) in one behaviour

(***************************************************************************)
(* Program constants.                                                      *)
(***************************************************************************)
LowConfidence == 40  \* run_agent_workflow: if confidence < 40
PreviewLimit == 3    \* run_agent_workflow: steps[:3] of the silent preview
max_retries == 3     \* run_command_with_ai_install(cmd, max_retries=3)

Paths == {"app.py"}
Confidences == {35, 85}

\* The shapes of one element of the plan's "steps" array.
\*   create, modify, delete, command, analyze : a well-formed Step
\*   other   : an object whose action is an unknown (or missing) string
\*   cmdnull : {"action": "command", "command": null}
\*   bad     : not an object, or an object whose action is not a string
FileActions == {"create", "modify"}
WellFormedActions == {"create", "modify", "delete", "command", "analyze"}
StepActions == WellFormedActions \cup {"other", "cmdnull", "bad"}
StepShapes == [action : StepActions, path : Paths]

RECURSIVE SeqsUpTo(_, _)
SeqsUpTo(S, n) ==
    IF n = 0 THEN {<<>>}
    ELSE LET shorter == SeqsUpTo(S, n - 1)
         IN  shorter \cup {Append(q, x) : q \in {r \in shorter : Len(r) = n - 1}, x \in S}

StepSeqs == SeqsUpTo(StepShapes, MaxSteps)

(***************************************************************************)
(* The backend's response to the plan prompt, by shape.                    *)
(*   empty    : generation failed or returned an empty text                *)
(*   notjson  : text json.loads rejects                                    *)
(*   array    : a JSON array (or string) that does not hold "steps"        *)
(*   scalar   : a JSON number, boolean or null                             *)
(*   object   : a JSON object; stepsShape says what its "steps" key holds  *)
(***************************************************************************)
PlanShape(k, sh, st, c) ==
    [kind |-> k, stepsShape |-> sh, steps |-> st, confidence |-> c]

PlanResponses ==
    {PlanShape(k, "absent", <<>>, 0) : k \in {"empty", "notjson", "array", "scalar"}}
    \cup {PlanShape("object", "absent", <<>>, c) : c \in Confidences}
    \cup {PlanShape("object", "nonarray", <<>>, c) : c \in Confidences}
    \cup {PlanShape("object", "array", st, c) : st \in StepSeqs, c \in Confidences}

NoPlan == PlanShape("none", "absent", <<>>, 0)

VARIABLES
    auto_mode,          \* TerminalApp.auto_mode
    GHOST_MODE,         \* UI.GHOST_MODE
    SILENT_ERRORS,      \* UI.SILENT_ERRORS
    EXECUTION_SUMMARY,  \* UI.EXECUTION_SUMMARY
    last_plan_cache,    \* PersistenceLayer.last_plan_cache
    files,              \* the paths that exist in the workspace
    pc,                 \* where the control flow is
    steps,              \* execute_plan_with_progress: its argument
    idx,                \* execute_plan_with_progress: the loop index i
    completed_steps,    \* execute_plan_with_progress: completed_steps
    run,                \* what the current plan execution has done so far
    runs,               \* plan executions started
    engines,            \* MultiAIEngine.engines: the names of the loaded adapters
    active_engine_name, \* MultiAIEngine.active_engine_name
    fallback_enabled,   \* config["fallback_enabled"]
    fallback_order,     \* MultiAIEngine.fallback_order
    model_stats,        \* config["model_stats"], by adapter
    balance_checked,    \* DeepSeekEngine.balance_checked
    balance_available,  \* DeepSeekEngine.balance_available
    call,               \* MultiAIEngine.generate_content: where the call is
    calls,              \* dispatcher operations (calls and commands) started
    promoted,           \* the adapter the last generate call switched to
    intent,             \* what deep_router returned to process_input
    runner,             \* run_command_with_ai_install: its locals and what it did
    configured,         \* the loaded adapters whose _configured is True
    adapter,            \* what the latest BaseAIEngine.generate_content did
    planner             \* AgentBrain.create_plan: its response and what it returned

execVars == <<auto_mode, GHOST_MODE, SILENT_ERRORS, EXECUTION_SUMMARY,
              last_plan_cache, files, pc, steps, idx, completed_steps,
              run, runs>>

dispVars == <<engines, active_engine_name, fallback_enabled, fallback_order,
              model_stats, balance_checked, balance_available, call, calls,
              promoted, intent>>

vars == <<execVars, dispVars, runner, configured, adapter, planner>>

(***************************************************************************)
(* UI.add_to_summary.  status is the icon, by meaning.  step and cur are   *)
(* bookkeeping: the step of the current execution that appended the entry  *)
(* (0 for none), and whether the current execution appended it.            *)
(***************************************************************************)
Entry(action, status, step) ==
    [action |-> action, status |-> status, step |-> step, cur |-> TRUE, sub |-> FALSE]

add_to_summary(summary, action, status, step) ==
    Append(summary, Entry(action, status, step))

Aged(summary) == [k \in DOMAIN summary |-> [summary[k] EXCEPT !.cur = FALSE]]

\* UI.show_summary: prints and then clears, unless empty or in ghost mode.
show_summary(summary, ghost) ==
    IF summary = <<>> \/ ghost THEN summary ELSE <<>>

(***************************************************************************)
(* AgentBrain.create_plan on a response: none, a raised TypeError, or the  *)
(* parsed object.                                                          *)
(***************************************************************************)
create_plan(resp) ==
    CASE resp.kind = "empty"   -> [ret |-> "none", plan |-> NoPlan]
      [] resp.kind = "notjson" -> [ret |-> "none", plan |-> NoPlan]
      [] resp.kind = "array"   -> [ret |-> "none", plan |-> NoPlan]
      [] resp.kind = "scalar"  -> [ret |-> "raise", plan |-> NoPlan]
      [] OTHER ->
            IF resp.stepsShape = "absent"
            THEN [ret |-> "none", plan |-> NoPlan]
            ELSE [ret |-> "plan", plan |-> resp]

(***************************************************************************)
(* create_plan on the fields of the response.  A JSON value is modelled by *)
(* its type with a number and a text; Absent stands for a key the object   *)
(* does not hold.                                                          *)
(***************************************************************************)
JValue(t, n, str) == [t |-> t, n |-> n, s |-> str]

JInt(n) == JValue("int", n, "")

JReal(n) == JValue("real", n, "")      \* a number with a fraction, n its floor

JStr(str) == JValue("str", 0, str)

JList(n) == JValue("list", n, "")      \* an array of n elements

JNull == JValue("null", 0, "")

Absent == JValue("absent", 0, "")

OptionalKeys == {"analysis", "dependencies", "confidence_reason", "risk_reason"}

PlanKeys == {"steps", "confidence", "risk", "suggestion"} \cup OptionalKeys

\* The JSON objects a backend answers the plan prompt with.
PlanData ==
    [steps : {Absent, JList(0), JList(1)},
     confidence : {Absent, JInt(35), JInt(85), JInt(150), JReal(72), JStr("high")},
     risk : {Absent, JStr("Low"), JStr("Critical")},
     suggestion : {Absent, JStr("s")},
     analysis : {Absent, JStr("a"), JNull},
     dependencies : {Absent, JList(1)},
     confidence_reason : {Absent, JStr("c")},
     risk_reason : {Absent, JStr("r")}]

\* What a JSON array or string holds of the keys: none of them.
NoData == [k \in PlanKeys |-> Absent]

\* The responses, by kind:
\*   empty     : generation failed or returned an empty text
\*   notjson   : text json.loads rejects
\*   array     : a JSON array or string in which "steps" does not occur
\*   holdssome : a JSON array or string in which "steps" occurs and one of
\*               the optional keys' names does not
\*   holdsall  : a JSON array or string in which "steps" and the four
\*               optional keys' names occur
\*   scalar    : a JSON number, boolean or null
\*   object    : a JSON object
DataResponses ==
    {[kind |-> k, data |-> NoData] :
        k \in {"empty", "notjson", "array", "holdssome", "holdsall", "scalar"}}
    \cup {[kind |-> "object", data |-> d] : d \in PlanData}

\* The values create_plan stores under the optional keys a plan lacks.
DefaultOf(k) ==
    CASE k = "analysis" -> JStr("No detailed analysis provided.")
      [] k = "dependencies" -> JList(0)
      [] k = "confidence_reason" ->
             JStr("Based on AI analysis of task complexity and project context.")
      [] OTHER -> JStr("Standard risk assessment based on file modification scope.")

\* The four "if key not in plan_data: plan_data[key] = ..." of create_plan.
fill_defaults(plan_data) ==
    [k \in PlanKeys |->
        IF k \in OptionalKeys /\ plan_data[k] = Absent
        THEN DefaultOf(k)
        ELSE plan_data[k]]

\* create_plan from "if not response" on.  The "in" tests of a list or a
\* string look for an element or a substring, and storing under a key
\* raises TypeError on both.
create_plan_data(resp) ==
    CASE resp.kind \in {"empty", "notjson", "array"} -> [ret |-> "none", plan |-> NoData]
      [] resp.kind \in {"scalar", "holdssome"} -> [ret |-> "raise", plan |-> NoData]
      [] resp.kind = "holdsall" -> [ret |-> "plan", plan |-> resp.data]
      [] OTHER ->
            IF resp.data.steps = Absent
            THEN [ret |-> "none", plan |-> NoData]
            ELSE [ret |-> "plan", plan |-> fill_defaults(resp.data)]

NoPlanner == [pos |-> "idle", resp |-> [kind |-> "empty", data |-> NoData],
              ret |-> "none", plan |-> NoData, gate |-> "none", cache |-> NoData]

\* What PersistenceLayer.save writes of a plan and of the summary, and what
\* PersistenceLayer.__init__ makes of it in the next process: save dumps
\* config, history and error_log only, __init__ sets last_plan_cache to None
\* and the class attribute UI.EXECUTION_SUMMARY starts as the empty list.
\* NoData stands for None.
save(plan, summary) == [config |-> "config", history |-> "history", error_log |-> "errors"]

load_plan(persisted) == NoData

load_summary(persisted) == <<>>

\* run_agent_workflow on the plan it was given: "confidence =
\* plan_data.get('confidence', 0)" and "if confidence < 40".  A list or a
\* string has no get; a text does not compare with 40.
confidence_of(plan) ==
    IF plan.confidence = Absent THEN JInt(0) ELSE plan.confidence

gate_on(kind, plan) ==
    IF kind # "object" THEN "raise"
    ELSE IF confidence_of(plan).t \notin {"int", "real"} THEN "raise"
    ELSE IF confidence_of(plan).n < LowConfidence THEN "low"
    ELSE "high"

RunRecord(src, conf) ==
    [src |-> src, confidence |-> conf, lowAsked |-> FALSE, planAsked |-> FALSE,
     answer |-> "-", trace |-> <<>>, acted |-> FALSE, band |-> "none",
     declined |-> FALSE, status |-> "running"]

\* run.declined says of the cached plan that the user declined it at the
\* gate of run_agent_workflow; it stays with the cache from one handler to
\* the next.
Carried(r) == [r EXCEPT !.declined = run.declined]

NoRun == [RunRecord("none", 0) EXCEPT !.status = "none"]

ExecInit ==
    /\ auto_mode = FALSE
    /\ GHOST_MODE = FALSE
    /\ SILENT_ERRORS \in BOOLEAN
    /\ EXECUTION_SUMMARY = <<>>
    /\ last_plan_cache = NoPlan
    /\ files \in SUBSET Paths
    /\ pc = "idle"
    /\ steps = <<>>
    /\ idx = 0
    /\ completed_steps = 0
    /\ run = NoRun
    /\ runs = 0

Min(a, b) == IF a < b THEN a ELSE b

(***************************************************************************)
(* The plan preview of run_agent_workflow.  Both previews read the fields  *)
(* of the steps outside any try: the silent/ghost one of the first three   *)
(* steps, UI.render_plan of every step.  "steps" that is no array raises   *)
(* in len(), in the slice or in step.get.                                  *)
(***************************************************************************)
preview_raises(plan, silent, ghost) ==
    \/ plan.stepsShape = "nonarray"
    \/ /\ silent \/ ghost
       /\ \E k \in 1..Min(Len(plan.steps), PreviewLimit) : plan.steps[k].action = "bad"
    \/ /\ ~(silent \/ ghost)
       /\ \E k \in 1..Len(plan.steps) : plan.steps[k].action = "bad"

Answers == {"y", "n", "auto"}

\* The confirmation run_agent_workflow asks for before it executes the plan:
\* the low-confidence one, the whole-plan one, or none.
confirmation_gate_silent(confidence, silent, auto, ghost) ==
    IF confidence < LowConfidence
    THEN IF ~silent THEN "low" ELSE "none"
    ELSE IF ~auto /\ ~ghost /\ ~silent THEN "plan" ELSE "none"

confirmation_gate(confidence, silent, auto, ghost) ==
    IF confidence < LowConfidence
    THEN IF ~silent THEN "low" ELSE "none"
    ELSE IF ~auto /\ ~ghost THEN "plan" ELSE "none"

\* TerminalApp.do_toggle_auto: self.auto_mode = not self.auto_mode
do_toggle_auto_kept(auto) == auto

do_toggle_auto(auto) == ~auto

\* The handler is over and control is back in the main loop of start().
Returned(status, r) == [r EXCEPT !.status = status]

\* execute_plan_with_progress(steps): the locals before the first iteration.
EnterLoop_tail(st) ==
    /\ steps' = IF st = <<>> THEN st ELSE Tail(st)
    /\ idx' = 1
    /\ completed_steps' = 0
    /\ pc' = "exec"
    /\ runs' = runs + 1

EnterLoop(st) ==
    /\ steps' = st
    /\ idx' = 1
    /\ completed_steps' = 0
    /\ pc' = "exec"
    /\ runs' = runs + 1

(***************************************************************************)
(* TerminalApp.run_agent_workflow up to its call of                        *)
(* execute_plan_with_progress: clear the summary, create the plan, cache   *)
(* it, preview it, gate on confidence and on the user's answer ans (read   *)
(* only when one of the two prompts is shown).                             *)
(***************************************************************************)
RunAgentWorkflow ==
    /\ pc = "idle"
    /\ runs < MaxRuns
    /\ \E resp \in PlanResponses :
         LET cp == create_plan(resp)
             plan == cp.plan
             r0 == RunRecord("workflow", plan.confidence)
             gate == confirmation_gate(plan.confidence, SILENT_ERRORS, auto_mode, GHOST_MODE)
             lowAsk == gate = "low"
             planAsk == gate = "plan"
             r1 == [r0 EXCEPT !.lowAsked = lowAsk, !.planAsked = planAsk]
         IN  /\ EXECUTION_SUMMARY' = <<>>
             /\ UNCHANGED <<GHOST_MODE, SILENT_ERRORS, files, dispVars, runner, configured, adapter, planner>>
             /\ IF cp.ret # "plan"
                THEN /\ run' = Returned(IF cp.ret = "raise" THEN "raised" ELSE "noplan",
                                          Carried(r0))
                     /\ pc' = "returned"
                     /\ UNCHANGED <<auto_mode, last_plan_cache, steps, idx,
                                    completed_steps, runs>>
                ELSE /\ last_plan_cache' = plan
                     /\ IF preview_raises(plan, SILENT_ERRORS, GHOST_MODE)
                        THEN /\ run' = Returned("raised", r0)
                             /\ pc' = "returned"
                             /\ UNCHANGED <<auto_mode, steps, idx, completed_steps, runs>>
                        ELSE \E ans \in IF lowAsk \/ planAsk THEN Answers ELSE {"-"} :
                               IF \/ lowAsk /\ ans # "y"
                                  \/ planAsk /\ ans \notin {"y", "auto"}
                               THEN /\ run' = Returned("declined",
                                                        [r1 EXCEPT !.answer = ans,
                                                                   !.declined = TRUE])
                                    /\ pc' = "returned"
                                    /\ UNCHANGED <<auto_mode, steps, idx,
                                                   completed_steps, runs>>
                               ELSE /\ run' = [r1 EXCEPT !.answer = ans]
                                    /\ auto_mode' = IF planAsk /\ ans = "auto"
                                                    THEN do_toggle_auto(auto_mode)
                                                    ELSE auto_mode
                                    /\ EnterLoop(plan.steps)

(***************************************************************************)
(* TerminalApp.do_replay_last_task: execute the cached plan's steps.       *)
(***************************************************************************)
Replay ==
    /\ pc = "idle"
    /\ runs < MaxRuns
    /\ last_plan_cache # NoPlan
    /\ UNCHANGED <<auto_mode, GHOST_MODE, SILENT_ERRORS, last_plan_cache, files, dispVars, runner, configured, adapter, planner>>
    /\ EXECUTION_SUMMARY' = Aged(EXECUTION_SUMMARY)
    /\ IF last_plan_cache.stepsShape = "nonarray"
       THEN /\ run' = Returned("raised",
                                 Carried(RunRecord("replay", last_plan_cache.confidence)))
            /\ pc' = "returned"
            /\ UNCHANGED <<steps, idx, completed_steps, runs>>
       ELSE /\ run' = Carried(RunRecord("replay", last_plan_cache.confidence))
            /\ EnterLoop(last_plan_cache.steps)


(***************************************************************************)
(* TerminalApp.run_command_with_ai_install(cmd, max_retries=3).            *)
(* One AttemptInput is what one iteration of its loop reads:               *)
(*   exit     : the exit status of current_cmd                             *)
(*   pkg      : stderr matches one of the "not found" patterns             *)
(*   install  : _get_ai_install_command returned a command, or nothing     *)
(*   answer   : the answer to "Execute AI-generated install command?"      *)
(*   instExit : the exit status of the install command                     *)
(*   fix      : get_fix_for_error returned a command, or nothing           *)
(* current_cmd is 0 for the original command and k for the k-th command    *)
(* get_fix_for_error suggested; log lists the commands run in order, the   *)
(* install command as InstallCmd; entries are the actions the runner adds  *)
(* to the summary.                                                         *)
(***************************************************************************)
InstallCmd == 0 - 1

\* The lengths of the stderr texts of a failed command, and the length
\* add_to_summary keeps of it: error_output[:100].
ShortStderr == 50
LongStderr == 150
DetailLimit == 100

AttemptInput(exit, pkg, install, answer, instExit, fix) ==
    [exit |-> exit, pkg |-> pkg, install |-> install, answer |-> answer,
     instExit |-> instExit, fix |-> fix, errlen |-> ShortStderr]

ExitsZero == AttemptInput(0, FALSE, "none", "n", 1, "none")
NoInstallCmd == AttemptInput(1, TRUE, "none", "n", 1, "none")
InstallOk == AttemptInput(1, TRUE, "cmd", "y", 0, "none")
InstallFails == AttemptInput(1, TRUE, "cmd", "y", 1, "none")
InstallDeclined == AttemptInput(1, TRUE, "cmd", "n", 1, "none")
FixGiven == AttemptInput(1, FALSE, "none", "n", 1, "cmd")
NoFix == AttemptInput(1, FALSE, "none", "n", 1, "none")
NoFixLong == [NoFix EXCEPT !.errlen = LongStderr]

AttemptInputs ==
    {ExitsZero, NoInstallCmd, InstallOk, InstallFails, InstallDeclined, FixGiven, NoFix,
     NoFixLong}

\* The inputs of the iterations of one call.  The loop stops at the first
\* input that does not make it continue, so the inputs after it are fixed,
\* and the last iteration reads the exit status only.
RunnerScenarios ==
    {scn \in [1..(max_retries + 1) -> AttemptInputs] :
        /\ scn[max_retries + 1] \in {ExitsZero, NoFix, NoFixLong}
        /\ \A k \in 1..max_retries :
              scn[k] \notin {InstallOk, FixGiven} =>
                  \A j \in (k + 1)..(max_retries + 1) : scn[j] = ExitsZero}

RunnerStart ==
    [attempt |-> 0, current_cmd |-> 0, log |-> <<>>, install_reqs |-> 0,
     install_none |-> 0, fix_reqs |-> 0, asked |-> 0, entries |-> <<>>,
     detail |-> 0, fix_args |-> <<>>, answers |-> <<>>, inst_exits |-> <<>>,
     result |-> "running"]

\* The test on the answer to "Execute AI-generated install command? (y/n)".
accepts_any(answer) == TRUE

accepts(answer) == answer = "y"

\* What the loop does after the install command returned: continue on exit
\* code 0, break otherwise.
install_outcome_retry(exit) == "continue"

install_outcome(exit) == IF exit = 0 THEN "continue" ELSE "break"

\* The command handed to get_fix_for_error: current_cmd.
fix_subject_original(r) == 0

fix_subject(r) == r.current_cmd

\* error_output[:100], by length.
truncated_whole(len) == len

truncated(len) == IF len < DetailLimit THEN len ELSE DetailLimit

\* "continue": the for loop takes the next value of range(max_retries + 1).
NextAttempt_stuck(attempt) == attempt

NextAttempt(attempt) == attempt + 1

\* One iteration of the for loop on the input in; result stays "running"
\* when the loop goes on.  A loop variable past range(max_retries + 1) ends
\* the loop, and the function returns False.
RunnerIteration(in, ghost, r) ==
    LET ran == [r EXCEPT !.log = Append(@, r.current_cmd)]
        false(q) == [q EXCEPT !.result = "false"]
        installed(q) == [q EXCEPT !.log = Append(@, InstallCmd),
                                  !.inst_exits = Append(@, in.instExit)]
        continue(q) == [q EXCEPT !.attempt = NextAttempt(@)]
        after_install(q) == IF install_outcome(in.instExit) = "continue"
                            THEN continue(q)
                            ELSE false(q)
    IN  IF r.attempt > max_retries
        THEN false(r)
        ELSE IF in.exit = 0
        THEN [ran EXCEPT !.result = "true"]
        ELSE IF r.attempt < max_retries
        THEN IF in.pkg
             THEN LET req == [ran EXCEPT !.install_reqs = @ + 1]
                  IN  IF in.install = "none"
                      THEN false([req EXCEPT !.install_none = @ + 1])
                      ELSE IF ghost
                      THEN after_install(installed(req))
                      ELSE LET q == [req EXCEPT !.asked = @ + 1,
                                                !.answers = Append(@, in.answer)]
                           IN  IF accepts(in.answer)
                               THEN IF in.instExit = 0
                                    THEN after_install(
                                           [installed(q) EXCEPT
                                              !.entries = Append(@, "AI-installed")])
                                    ELSE after_install(installed(q))
                               ELSE false(q)
             ELSE LET req == [ran EXCEPT !.fix_reqs = @ + 1,
                                         !.fix_args = Append(@, fix_subject(r))]
                  IN  IF in.fix = "cmd"
                      THEN continue([req EXCEPT !.current_cmd = req.fix_reqs])
                      ELSE false(req)
        ELSE false([ran EXCEPT !.entries = Append(@, "Failed command"),
                               !.detail = truncated(in.errlen)])

\* No command is being run.
NoRunner == [RunnerStart EXCEPT !.result = "idle"]

RECURSIVE RunnerLoop(_, _, _)
RunnerLoop(scn, ghost, r) ==
    LET q == RunnerIteration(scn[r.attempt + 1], ghost, r)
    IN  IF q.result = "running" THEN RunnerLoop(scn, ghost, q) ELSE q

run_command_with_ai_install(scn, ghost) == RunnerLoop(scn, ghost, RunnerStart)

(***************************************************************************)
(* One iteration of the loop of execute_plan_with_progress, by the branch  *)
(* it takes.  What the iteration did is kept in run.trace, one record per  *)
(* step visited: whether the user was asked to allow it, whether it was    *)
(* dispatched, and the event that ended it.                                *)
(***************************************************************************)
Visit(asked, dispatched, event) ==
    [asked |-> asked, dispatched |-> dispatched, event |-> event]

Visited(r, asked, dispatched, event) ==
    [r EXCEPT !.trace = Append(@, Visit(asked, dispatched, event))]

Acted(r) == [r EXCEPT !.acted = TRUE]

\* The condition of the "Allow step i/total?" prompt.
AsksPerStep == ~auto_mode /\ ~GHOST_MODE /\ ~SILENT_ERRORS

Choices == {"y", "n", "skip"}

InLoop ==
    /\ pc = "exec"
    /\ idx <= Len(steps)
    /\ UNCHANGED <<auto_mode, GHOST_MODE, SILENT_ERRORS, last_plan_cache, steps, runs,
                   dispVars, runner, configured, adapter, planner>>

\* step.get(...) or .lower() raises before the try: the exception leaves
\* execute_plan_with_progress.
StepRaisesOutsideTry ==
    /\ InLoop
    /\ steps[idx].action = "bad"
    /\ run' = Returned("aborted", run)
    /\ pc' = "returned"
    /\ UNCHANGED <<EXECUTION_SUMMARY, files, idx, completed_steps>>

\* choice == 'n': break
StepStopped ==
    /\ InLoop
    /\ steps[idx].action # "bad"
    /\ AsksPerStep
    /\ EXECUTION_SUMMARY' = add_to_summary(EXECUTION_SUMMARY, "Stopped by user", "stop", idx)
    /\ run' = Visited(run, TRUE, FALSE, "stopped")
    /\ idx' = Len(steps) + 1
    /\ UNCHANGED <<files, pc, completed_steps>>

\* choice == 'skip': continue
StepSkipped ==
    /\ InLoop
    /\ steps[idx].action # "bad"
    /\ AsksPerStep
    /\ EXECUTION_SUMMARY' = add_to_summary(EXECUTION_SUMMARY, "Skipped", "skip", idx)
    /\ run' = Visited(run, TRUE, FALSE, "skipped")
    /\ idx' = idx + 1
    /\ UNCHANGED <<files, pc, completed_steps>>

\* No prompt, or any answer other than 'n' and 'skip': the step is dispatched.
Dispatched(action) ==
    /\ InLoop
    /\ steps[idx].action = action
    /\ idx' = idx + 1
    /\ pc' = pc

\* _handle_file_action(action, path, ...) followed by completed_steps += 1.
\*   gen   : execute_code_generation returned text, or nothing
\*   apply : the answer to "Apply changes?"
\*   write : WorkspaceManager.write_file returned True, or the error text
HandleFileAction(action, gen, apply, write) ==
    LET path == steps[idx].path
        is_mod == action = "modify"
        old_content == is_mod /\ path \in files
        confirm == ~GHOST_MODE /\ is_mod /\ old_content /\ ~SILENT_ERRORS /\ ~auto_mode
    IN  IF gen = "none"
        THEN /\ run' = Visited(run, AsksPerStep, TRUE, "gen_none")
             /\ UNCHANGED <<EXECUTION_SUMMARY, files>>
        ELSE IF confirm /\ apply # "y"
        THEN /\ EXECUTION_SUMMARY' =
                    add_to_summary(EXECUTION_SUMMARY, "Skipped modification", "skip", idx)
             /\ run' = Visited(run, AsksPerStep, TRUE, "mod_declined")
             /\ UNCHANGED files
        ELSE IF write = "ok"
        THEN /\ files' = files \cup {path}
             /\ EXECUTION_SUMMARY' =
                    add_to_summary(EXECUTION_SUMMARY,
                                   IF is_mod THEN "Modified file" ELSE "Created file",
                                   "ok", idx)
             /\ run' = Acted(Visited(run, AsksPerStep, TRUE, "written"))
        ELSE /\ EXECUTION_SUMMARY' =
                    add_to_summary(EXECUTION_SUMMARY,
                                   IF is_mod THEN "Failed to modify" ELSE "Failed to create",
                                   "fail", idx)
             /\ run' = Visited(run, AsksPerStep, TRUE, "write_failed")
             /\ UNCHANGED files

StepFile ==
    \E action \in FileActions, gen \in {"none", "text"}, apply \in {"y", "n"},
       write \in {"ok", "error"} :
        /\ Dispatched(action)
        /\ HandleFileAction(action, gen, apply, write)
        /\ completed_steps' = completed_steps + 1

\* The delete branch: WorkspaceManager.delete_file, then completed_steps += 1.
\*   oserr : os.remove raised
StepDelete ==
    \E oserr \in BOOLEAN :
        LET path == steps[idx].path
        IN  /\ Dispatched("delete")
            /\ completed_steps' = completed_steps + 1
            /\ IF path \in files /\ ~oserr
               THEN /\ files' = files \ {path}
                    /\ EXECUTION_SUMMARY' =
                           add_to_summary(EXECUTION_SUMMARY, "Deleted file", "ok", idx)
                    /\ run' = Acted(Visited(run, AsksPerStep, TRUE, "deleted"))
               ELSE /\ EXECUTION_SUMMARY' =
                           add_to_summary(EXECUTION_SUMMARY, "Failed to delete", "fail", idx)
                    /\ run' = Visited(run, AsksPerStep, TRUE, "delete_failed")
                    /\ UNCHANGED files

\* The runner's summary entries, as entries of step i.
RunnerEntries(r, i) ==
    [k \in DOMAIN r.entries |->
        [Entry(r.entries[k], IF r.entries[k] = "AI-installed" THEN "ok" ELSE "fail", i)
            EXCEPT !.sub = TRUE]]

\* The command branch: the runner, then completed_steps += 1 or the
\* "Failed command" entry.
command_branch_counted(r, summary, completed, i) ==
    [completed_steps |-> completed + 1, summary |-> summary \o RunnerEntries(r, i)]

command_branch_uncounted(r, summary, completed, i) ==
    [completed_steps |-> completed,
     summary |-> add_to_summary(summary \o RunnerEntries(r, i), "Failed command", "fail", i)]

\* What the command branch does with the runner's result r.
command_branch(r, summary, completed, i) ==
    LET after == summary \o RunnerEntries(r, i)
    IN  IF r.result = "true"
        THEN [completed_steps |-> completed + 1, summary |-> after]
        ELSE [completed_steps |-> completed,
              summary |-> add_to_summary(after, "Failed command", "fail", i)]

StepCommand ==
    \E scn \in RunnerScenarios :
        LET r == run_command_with_ai_install(scn, GHOST_MODE)
            b == command_branch(r, EXECUTION_SUMMARY, completed_steps, idx)
        IN  /\ Dispatched("command")
            /\ UNCHANGED files
            /\ completed_steps' = b.completed_steps
            /\ EXECUTION_SUMMARY' = b.summary
            /\ run' = Acted(Visited(run, AsksPerStep, TRUE,
                                    IF r.result = "true" THEN "cmd_true" ELSE "cmd_false"))

\* "command" is null: current_cmd[:50] raises inside the try, the except
\* clause records the error.
StepRaisesInTry ==
    /\ Dispatched("cmdnull")
    /\ EXECUTION_SUMMARY' = add_to_summary(EXECUTION_SUMMARY, "Error in step", "fail", idx)
    /\ run' = Visited(run, AsksPerStep, TRUE, "raised")
    /\ UNCHANGED <<files, completed_steps>>

StepAnalyze ==
    /\ Dispatched("analyze")
    /\ EXECUTION_SUMMARY' = add_to_summary(EXECUTION_SUMMARY, "Analyzed", "info", idx)
    /\ completed_steps' = completed_steps + 1
    /\ run' = Visited(run, AsksPerStep, TRUE, "analyzed")
    /\ UNCHANGED files

\* An action no branch of the if/elif chain matches.
StepNoBranch ==
    /\ Dispatched("other")
    /\ run' = Visited(run, AsksPerStep, TRUE, "no_branch")
    /\ UNCHANGED <<EXECUTION_SUMMARY, files, completed_steps>>

ExecStep ==
    \/ StepRaisesOutsideTry
    \/ StepStopped
    \/ StepSkipped
    \/ StepFile
    \/ StepDelete
    \/ StepCommand
    \/ StepRaisesInTry
    \/ StepAnalyze
    \/ StepNoBranch

\* The thresholds of the completion bands, in percent.
ExcellentRate == 90
GoodRate == 70
PartialRate == 50

\* success_rate >= pct, where success_rate is completed_steps / total * 100
\* if total > 0 else 0.  The float comparison agrees with the exact one for
\* every total below 3000 and every threshold above.
rate_reaches(completed, total, pct) ==
    IF total > 0 THEN completed * 100 >= pct * total ELSE 0 >= pct

\* The if/elif chain over success_rate.
completion_msg_strict(completed, total) ==
    IF total > 0 /\ completed * 100 > ExcellentRate * total THEN "Excellent"
    ELSE IF rate_reaches(completed, total, GoodRate) THEN "Good"
    ELSE IF rate_reaches(completed, total, PartialRate) THEN "Partial"
    ELSE "Poor"

completion_msg(completed, total) ==
    IF rate_reaches(completed, total, ExcellentRate) THEN "Excellent"
    ELSE IF rate_reaches(completed, total, GoodRate) THEN "Good"
    ELSE IF rate_reaches(completed, total, PartialRate) THEN "Partial"
    ELSE "Poor"

\* execute_plan_with_progress after the loop: the completion ratio and its
\* band are printed, then UI.show_summary.
Finish ==
    /\ pc = "exec"
    /\ idx > Len(steps)
    /\ EXECUTION_SUMMARY' = show_summary(EXECUTION_SUMMARY, GHOST_MODE)
    /\ run' = [Returned("finished", run) EXCEPT
                  !.band = completion_msg(completed_steps, Len(steps))]
    /\ pc' = "returned"
    /\ UNCHANGED <<auto_mode, GHOST_MODE, SILENT_ERRORS, last_plan_cache, files,
                   steps, idx, completed_steps, runs, dispVars, runner, configured, adapter, planner>>

\* TerminalApp.start: the handler returned (or its exception was caught and
\* logged) and the loop reads the next input.
MainLoop ==
    /\ pc = "returned"
    /\ pc' = "idle"
    /\ steps' = <<>>
    /\ idx' = 0
    /\ completed_steps' = 0
    /\ run' = Carried(NoRun)
    /\ UNCHANGED <<auto_mode, GHOST_MODE, SILENT_ERRORS, EXECUTION_SUMMARY,
                   last_plan_cache, files, runs, dispVars, runner, configured, adapter, planner>>

AtPrompt ==
    /\ pc = "idle"
    /\ UNCHANGED <<pc, steps, idx, completed_steps, run, runs, last_plan_cache, files,
                   dispVars, runner, configured, adapter, planner>>

\* TerminalApp.do_toggle_auto
ToggleAuto ==
    /\ AtPrompt
    /\ auto_mode' = do_toggle_auto(auto_mode)
    /\ UNCHANGED <<GHOST_MODE, SILENT_ERRORS, EXECUTION_SUMMARY>>

\* TerminalApp.do_toggle_ghost / UI.set_ghost
ToggleGhost ==
    /\ AtPrompt
    /\ GHOST_MODE' = ~GHOST_MODE
    /\ UNCHANGED <<auto_mode, SILENT_ERRORS, EXECUTION_SUMMARY>>

\* TerminalApp.do_toggle_silent
ToggleSilent ==
    /\ AtPrompt
    /\ SILENT_ERRORS' = ~SILENT_ERRORS
    /\ UNCHANGED <<auto_mode, GHOST_MODE, EXECUTION_SUMMARY>>

\* TerminalApp.do_show_summary
ShowSummary ==
    /\ AtPrompt
    /\ EXECUTION_SUMMARY # <<>>
    /\ EXECUTION_SUMMARY' = show_summary(EXECUTION_SUMMARY, GHOST_MODE)
    /\ UNCHANGED <<auto_mode, GHOST_MODE, SILENT_ERRORS>>

(***************************************************************************)
(* The dispatcher: MultiAIEngine over the adapters GroqEngine,             *)
(* GeminiEngine and DeepSeekEngine (BaseAIEngine).                         *)
(***************************************************************************)
MaxCalls == 2        \* dispatcher operations (calls and commands) in one behaviour

retries == 3         \* generate_content(self, prompt, retries=3)

ShortLimit == 3      \* deep_router: len(prompt.strip()) < 3

Engines == {"groq", "gemini", "deepseek"}

\* What DeepSeekEngine.check_balance's probe request does: it succeeds, or
\* raises with 402 / "Insufficient Balance", with 401, or with another error.
BalOutcomes == {"ok", "402", "401", "other"}

\* DeepSeekEngine.check_balance: the flags after it and what it returns.
\* An adapter without a key has no client: the probe raises AttributeError,
\* one of the other errors.
check_balance(checked, available, bal) ==
    LET b == IF "deepseek" \in configured THEN bal ELSE "other"
    IN  CASE b = "ok"  -> [checked |-> TRUE, available |-> TRUE, ret |-> TRUE]
          [] b = "402" -> [checked |-> TRUE, available |-> FALSE, ret |-> FALSE]
          [] b = "401" -> [checked |-> checked, available |-> FALSE, ret |-> FALSE]
          [] OTHER     -> [checked |-> checked, available |-> TRUE, ret |-> TRUE]

\* MultiAIEngine._determine_fallback_order: the order, and DeepSeek's flags
\* after the balance check it may make.
determine_fallback_order(loaded, checked, available, bal) ==
    LET base == (IF "groq" \in loaded THEN <<"groq">> ELSE <<>>)
                \o (IF "gemini" \in loaded THEN <<"gemini">> ELSE <<>>)
        chk == check_balance(checked, available, bal)
    IN  IF "deepseek" \notin loaded
        THEN [order |-> base, checked |-> checked, available |-> available]
        ELSE IF ~checked
        THEN [order |-> IF chk.ret THEN Append(base, "deepseek") ELSE base,
              checked |-> chk.checked, available |-> chk.available]
        ELSE [order |-> IF available THEN Append(base, "deepseek") ELSE base,
              checked |-> checked, available |-> available]

\* PersistenceLayer.update_model_stat (tokens_used and last_used are left out).
NoStat == [requests |-> 0, successes |-> 0, failures |-> 0]

update_model_stat_lossy(stats, name, success) ==
    [stats EXCEPT ![name] =
        [requests |-> @.requests + 1,
         successes |-> IF success THEN @.successes + 1 ELSE @.successes,
         failures |-> @.failures]]

update_model_stat(stats, name, success) ==
    [stats EXCEPT ![name] =
        [requests |-> @.requests + 1,
         successes |-> IF success THEN @.successes + 1 ELSE @.successes,
         failures |-> IF success THEN @.failures ELSE @.failures + 1]]

\* MultiAIEngine.switch_engine: the active adapter's name after it.
switch_engine_ignored(active, loaded, engine_name) == active

switch_engine(active, loaded, engine_name) ==
    IF engine_name \in loaded THEN engine_name ELSE active

Unavailable_never(e, available) == FALSE

\* The guard "engine_name == 'deepseek' and not balance_available".
Unavailable(e, available) == e = "deepseek" /\ ~available

\* The text a backend hands to deep_router: a word, possibly in lower case,
\* possibly with white space around it.
IntentCategory ==
    {"CHAT", "QUESTION", "MODIFY_PROJECT", "CREATE_PROJECT", "DEBUG", "RUN_ONLY"}

Words == {"CHAT", "DEBUG", "RUN_ONLY", "DEBUG.", ""}

Text(pad, lower, word) == [pad |-> pad, lower |-> lower, word |-> word]

\* The texts Python holds true: everything but the empty string.
Texts ==
    {t \in [pad : BOOLEAN, lower : BOOLEAN, word : Words] :
        /\ t.word = "" => t.pad /\ ~t.lower}

strip(t) == [t EXCEPT !.pad = FALSE]

upper(t) == [t EXCEPT !.lower = FALSE]

Token(w) == Text(FALSE, FALSE, w)

NoIntent == Token("-")

\* generate_content's None, where a text is expected.
NoText == Token("none")

\* AgentBrain.deep_router past the length test: result is the text
\* generate_content returned, or NoText.
deep_router(result) ==
    IF result # NoText THEN upper(strip(result)) ELSE Token("CHAT")

\* What MultiAIEngine.chat or get_fix_for_error did with the last request it
\* served: the number n of the request, the remote requests it sent to the
\* active adapter, whether it went on to another adapter, and how the last
\* remote request ended.
NoServed == [kind |-> "none", n |-> 0, requests |-> 0, fallback |-> FALSE, out |-> "none"]

Served(kind, n, remote, out) ==
    [kind |-> kind, n |-> n, requests |-> IF remote THEN 1 ELSE 0, fallback |-> FALSE,
     out |-> IF remote THEN out ELSE "unsent"]

IdleCall ==
    [pos |-> "idle", stage |-> "none", target |-> "none", k |-> 0, attempt |-> 0,
     force |-> "none", first |-> "none", result |-> "none", switched |-> FALSE,
     active0 |-> "none", after |-> "none", tried |-> <<>>,
     served |-> NoServed, short |-> 0]

Tried(c, stage, e, k) ==
    [c EXCEPT !.pos = "try", !.stage = stage, !.target = e, !.k = k, !.attempt = 0,
              !.first = IF @ = "none" THEN e ELSE @,
              !.tried = Append(@, [stage |-> stage, name |-> e])]

ReturnsNone_last(c) == [c EXCEPT !.pos = "done", !.result = c.first]

\* "return None, None", the last line of MultiAIEngine.generate_content.
ReturnsNone(c) == [c EXCEPT !.pos = "done", !.result = "none"]

\* The first name of order, from index from on, the fallback loop attempts.
RECURSIVE NextFallback(_, _, _, _)
NextFallback(order, from, active, available) ==
    IF from > Len(order) THEN 0
    ELSE IF order[from] # active /\ ~Unavailable(order[from], available) THEN from
    ELSE NextFallback(order, from + 1, active, available)

\* generate_content from "if self.store.config.get('fallback_enabled')" on.
\* d holds the call and the state the walk reads and writes.
EnterFallback_always(d, bal) ==
    LET o == determine_fallback_order(engines, d.checked, d.available, bal)
        j == NextFallback(o.order, 1, active_engine_name, o.available)
        d1 == [d EXCEPT !.order = o.order, !.checked = o.checked,
                        !.available = o.available]
    IN  IF j = 0
        THEN [d1 EXCEPT !.call = ReturnsNone(@)]
        ELSE [d1 EXCEPT !.call = Tried(@, "fallback", o.order[j], j)]

EnterFallback(d, bal) ==
    IF ~fallback_enabled
    THEN [d EXCEPT !.call = ReturnsNone(@)]
    ELSE LET o == determine_fallback_order(engines, d.checked, d.available, bal)
             j == NextFallback(o.order, 1, active_engine_name, o.available)
             d1 == [d EXCEPT !.order = o.order, !.checked = o.checked,
                             !.available = o.available]
         IN  IF j = 0
             THEN [d1 EXCEPT !.call = ReturnsNone(@)]
             ELSE [d1 EXCEPT !.call = Tried(@, "fallback", o.order[j], j)]

\* generate_content from "engine = self.get_active_engine()" on.
EnterActive(d, bal) ==
    IF active_engine_name \in engines /\ ~Unavailable(active_engine_name, d.available)
    THEN [d EXCEPT !.call = Tried(@, "active", active_engine_name, 0)]
    ELSE EnterFallback(d, bal)

\* generate_content from its first line on.
EnterForced(d, bal) ==
    IF d.call.force \in engines /\ ~Unavailable(d.call.force, d.available)
    THEN [d EXCEPT !.call = Tried(@, "forced", d.call.force, 0)]
    ELSE EnterActive(d, bal)

\* An adapter's generate_content returned nothing: the walk goes on.
GoesOn(d, bal) ==
    CASE d.call.stage = "forced" -> EnterActive(d, bal)
      [] d.call.stage = "active" -> EnterFallback(d, bal)
      [] OTHER ->
            LET j == NextFallback(d.order, d.call.k + 1, active_engine_name, d.available)
            IN  IF j = 0
                THEN [d EXCEPT !.call = ReturnsNone(@)]
                ELSE [d EXCEPT !.call = Tried(@, "fallback", d.order[j], j)]

Walk ==
    [call |-> call, order |-> fallback_order, checked |-> balance_checked,
     available |-> balance_available]

Walked(d) ==
    /\ call' = d.call
    /\ fallback_order' = d.order
    /\ balance_checked' = d.checked
    /\ balance_available' = d.available

\* The balance probes a step can make: one outcome is enough where no probe
\* is made.
Probes(e) ==
    IF e \in engines /\ e = "deepseek" /\ ~balance_checked THEN BalOutcomes ELSE {"ok"}

\* MultiAIEngine.generate_content(prompt, retries, force_engine) is called:
\* up to the first adapter's generate_content, or to the return if no
\* adapter is attempted.
\*   short : the number of the request if deep_router makes it for a prompt
\*           of fewer than ShortLimit characters after trimming, else 0
GenerateCall(force, short) ==
    /\ call.pos = "idle"
    /\ calls < MaxCalls
    /\ \E bal \in Probes("deepseek") :
         Walked(EnterForced([Walk EXCEPT !.call = [IdleCall EXCEPT !.force = force,
                                                             !.after = promoted,
                                                             !.active0 = active_engine_name,
                                                             !.short = short]],
                            bal))
    /\ calls' = calls + 1
    /\ promoted' = "none"
    /\ intent' = NoIntent
    /\ UNCHANGED <<engines, active_engine_name, fallback_enabled, model_stats, execVars, runner, configured, adapter, planner>>

Generate == \E force \in Engines \cup {"none"} : GenerateCall(force, 0)

\* The adapter's _unsafe_generate: DeepSeek's balance check, then the remote
\* request gen.  What it yields, and DeepSeek's flags after it.
unsafe_generate_unguarded(e, checked, available, bal, gen) ==
    LET chk == IF e = "deepseek" /\ ~checked
               THEN check_balance(checked, available, bal)
               ELSE [checked |-> checked, available |-> available, ret |-> TRUE]
        remote == ~(e = "deepseek" /\ (~chk.ret \/ ~chk.available))
    IN  [out |-> IF remote THEN gen ELSE "empty", remote |-> remote,
         checked |-> chk.checked, available |-> chk.available]

unsafe_generate(e, checked, available, bal, gen) ==
    LET chk == IF e = "deepseek" /\ ~checked
               THEN check_balance(checked, available, bal)
               ELSE [checked |-> checked, available |-> available, ret |-> TRUE]
        remote == ~(e = "deepseek" /\ (~chk.ret \/ ~chk.available))
    IN  IF e \notin configured
        THEN [out |-> "empty", remote |-> FALSE,
              checked |-> checked, available |-> available]
        ELSE [out |-> IF remote THEN gen ELSE "empty", remote |-> remote,
              checked |-> chk.checked, available |-> chk.available]

GenOutcomes == {"raise", "empty", "text"}

(***************************************************************************)
(* One iteration of the retry loop of BaseAIEngine.generate_content on the *)
(* adapter call.target and, when that ends the adapter's call, the walk of *)
(* MultiAIEngine.generate_content up to the next adapter or to its return. *)
(*   bal  : the balance probe inside _unsafe_generate                      *)
(*   gen  : the remote request                                             *)
(*   bal2 : the balance probe inside _determine_fallback_order             *)
(***************************************************************************)
\* Whether a successful adapter is made the active one: switch_engine is
\* called in the fallback loop only.
promotes_any(stage) == TRUE

promotes(stage) == stage = "fallback"

TryGenerateWith(bal, gen, bal2) ==
    /\ call.pos = "try"
    /\ UNCHANGED <<engines, fallback_enabled, calls, promoted, intent, execVars, runner,
                   configured, planner>>
    /\ LET e == call.target
           u == unsafe_generate(e, balance_checked, balance_available, bal, gen)
           d1 == [Walk EXCEPT !.checked = u.checked, !.available = u.available]
       IN  CASE u.out = "text" ->
                  /\ model_stats' = update_model_stat(model_stats, e, TRUE)
                  /\ Walked([d1 EXCEPT !.call.pos = "done", !.call.result = e,
                                        !.call.switched = promotes(call.stage)])
                  /\ active_engine_name' =
                         IF promotes(call.stage)
                         THEN switch_engine(active_engine_name, engines, e)
                         ELSE active_engine_name
             [] u.out = "empty" ->
                  /\ UNCHANGED <<model_stats, active_engine_name>>
                  /\ Walked(GoesOn(d1, bal2))
             [] OTHER ->
                  IF call.attempt < retries - 1
                  THEN /\ UNCHANGED <<model_stats, active_engine_name>>
                       /\ Walked([d1 EXCEPT !.call.attempt = @ + 1])
                  ELSE /\ model_stats' = update_model_stat(model_stats, e, FALSE)
                       /\ UNCHANGED active_engine_name
                       /\ Walked(GoesOn(d1, bal2))

TryGenerate ==
    /\ \E bal \in Probes(call.target), gen \in GenOutcomes, bal2 \in Probes("deepseek") :
         TryGenerateWith(bal, gen, bal2)
    /\ UNCHANGED adapter

(***************************************************************************)
(* What one call of BaseAIEngine.generate_content has done so far: the     *)
(* adapter, the passes through its loop, the remote requests sent, the     *)
(* time.sleep waits in order, how the last pass ended and whether the call *)
(* has returned.                                                           *)
(***************************************************************************)
NoAdapter ==
    [name |-> "none", tries |-> 0, remote |-> 0, waits |-> <<>>, out |-> "none",
     returned |-> FALSE]

\* wait_time = (attempt + 1) * 2
backoff_flat(attempt) == 2

backoff(attempt) == (attempt + 1) * 2

\* The record after the pass number attempt (from 0) on adapter e, whose
\* _unsafe_generate did u.
Observe(a, e, attempt, u) ==
    LET b == IF attempt = 0 THEN [NoAdapter EXCEPT !.name = e] ELSE a
        sleeps == u.out = "raise" /\ attempt < retries - 1
    IN  [b EXCEPT !.tries = @ + 1,
                  !.remote = IF u.remote THEN @ + 1 ELSE @,
                  !.waits = IF sleeps THEN Append(@, backoff(attempt)) ELSE @,
                  !.out = u.out,
                  !.returned = ~sleeps]

\* TryGenerate, its effect on the adapter's call kept in adapter.
TryGenerateObserved ==
    \E bal \in Probes(call.target), gen \in GenOutcomes, bal2 \in Probes("deepseek") :
        /\ TryGenerateWith(bal, gen, bal2)
        /\ adapter' = Observe(adapter, call.target, call.attempt,
                               unsafe_generate(call.target, balance_checked,
                                               balance_available, bal, gen))

\* A prompt: its characters without the white space at its ends, and that
\* white space.
Prompts == [chars : {0, 2, 3}, pad : {0, 1}]

prompt_len(p) == p.chars + p.pad

prompt_strip(p) == [p EXCEPT !.pad = 0]

\* The test "len(prompt.strip()) < 3" of deep_router.
is_short_untrimmed(p) == prompt_len(p) < ShortLimit

is_short(p) == prompt_len(prompt_strip(p)) < ShortLimit

\* The request number, kept for a prompt short after trimming.
ShortMark(p, n) == IF p.chars < ShortLimit THEN n ELSE 0

\* deep_router on a prompt its length test holds short.
DeepRouterShort ==
    /\ call.pos = "idle"
    /\ calls < MaxCalls
    /\ calls' = calls + 1
    /\ intent' = Token("CHAT")
    /\ \E p \in Prompts :
         /\ is_short(p)
         /\ call' = [IdleCall EXCEPT !.short = ShortMark(p, calls')]
    /\ UNCHANGED <<engines, active_engine_name, fallback_enabled, fallback_order,
                   model_stats, balance_checked, balance_available, promoted, execVars, runner, configured, adapter, planner>>

\* deep_router on any other prompt: it calls generate_content.
DeepRouterLong ==
    \E p \in Prompts :
        /\ ~is_short(p)
        /\ GenerateCall("none", ShortMark(p, calls + 1))

\* MultiAIEngine.generate_content returns to its caller.  The callers differ
\* only in what they do with the text: deep_router turns it into the intent.
Callers == {"router", "other"}

Return ==
    /\ call.pos = "done"
    /\ call' = IdleCall
    /\ promoted' = IF call.switched THEN call.result ELSE "none"
    /\ \E caller \in Callers :
         IF caller = "router"
         THEN IF call.result = "none"
              THEN intent' = deep_router(NoText)
              ELSE \E t \in Texts : intent' = deep_router(t)
         ELSE intent' = NoIntent
    /\ UNCHANGED <<engines, active_engine_name, fallback_enabled, fallback_order,
                   model_stats, balance_checked, balance_available, calls, execVars, runner, configured, adapter, planner>>

ChatOutcomes == {"raise", "text"}

\* MultiAIEngine.chat: BaseAIEngine.chat on the active adapter.
Chat ==
    /\ call.pos = "idle"
    /\ calls < MaxCalls
    /\ calls' = calls + 1
    /\ promoted' = "none"
    /\ intent' = NoIntent
    /\ UNCHANGED <<engines, active_engine_name, fallback_enabled, fallback_order,
                   execVars, runner, configured, adapter, planner>>
    /\ IF active_engine_name \notin engines
       THEN /\ call' = [IdleCall EXCEPT !.served = Served("chat", calls', FALSE, "none")]
            /\ UNCHANGED <<model_stats, balance_checked, balance_available>>
       ELSE \E bal \in Probes(active_engine_name), out \in ChatOutcomes :
              LET e == active_engine_name
                  u == unsafe_generate(e, balance_checked, balance_available, bal, out)
              IN  /\ call' = [IdleCall EXCEPT
                                 !.served = Served("chat", calls', u.remote, out)]
                  /\ balance_checked' = u.checked
                  /\ balance_available' = u.available
                  /\ model_stats' =
                        IF u.remote
                        THEN update_model_stat(model_stats, e, out = "text")
                        ELSE model_stats

\* MultiAIEngine.get_fix_for_error: BaseAIEngine.get_fix_for_error on the
\* active adapter, whose _unsafe_get_fix calls _unsafe_generate once and
\* updates no statistics; an exception yields None.
GetFix ==
    /\ call.pos = "idle"
    /\ calls < MaxCalls
    /\ calls' = calls + 1
    /\ promoted' = "none"
    /\ intent' = NoIntent
    /\ UNCHANGED <<engines, active_engine_name, fallback_enabled, fallback_order,
                   model_stats, execVars, runner, configured, adapter, planner>>
    /\ IF active_engine_name \notin engines
       THEN /\ call' = [IdleCall EXCEPT !.served = Served("fix", calls', FALSE, "none")]
            /\ UNCHANGED <<balance_checked, balance_available>>
       ELSE \E bal \in Probes(active_engine_name), out \in GenOutcomes :
              LET e == active_engine_name
                  u == unsafe_generate(e, balance_checked, balance_available, bal, out)
              IN  /\ call' = [IdleCall EXCEPT
                                 !.served = Served("fix", calls', u.remote, out)]
                  /\ balance_checked' = u.checked
                  /\ balance_available' = u.available

\* The command "switch <name>": do_switch_engine.
SwitchEngine ==
    /\ call.pos = "idle"
    /\ \E name \in Engines :
         /\ active_engine_name' = switch_engine(active_engine_name, engines, name)
         /\ active_engine_name' # active_engine_name
    /\ promoted' = "none"
    /\ calls < MaxCalls
    /\ calls' = calls + 1
    /\ UNCHANGED <<engines, fallback_enabled, fallback_order, model_stats,
                   balance_checked, balance_available, call, intent, execVars, runner, configured, adapter, planner>>

\* The command "fallback": do_toggle_fallback.
ToggleFallback ==
    /\ call.pos = "idle"
    /\ fallback_enabled' = ~fallback_enabled
    /\ calls < MaxCalls
    /\ calls' = calls + 1
    /\ UNCHANGED <<engines, active_engine_name, fallback_order, model_stats,
                   balance_checked, balance_available, call, promoted, intent,
                   execVars, runner, configured, adapter, planner>>

\* The command "balance": do_check_balance.
CheckBalance ==
    /\ call.pos = "idle"
    /\ "deepseek" \in engines
    /\ \E bal \in BalOutcomes :
         LET chk == check_balance(balance_checked, balance_available, bal)
         IN  /\ balance_checked' = chk.checked
             /\ balance_available' = chk.available
             /\ <<chk.checked, chk.available>> # <<balance_checked, balance_available>>
    /\ promoted' = "none"
    /\ calls < MaxCalls
    /\ calls' = calls + 1
    /\ UNCHANGED <<engines, active_engine_name, fallback_enabled, fallback_order,
                   model_stats, call, intent, execVars, runner, configured, adapter, planner>>

\* The executor's state while the dispatcher is studied: the prompt.
ExecIdle ==
    /\ auto_mode = FALSE
    /\ GHOST_MODE = FALSE
    /\ SILENT_ERRORS = TRUE
    /\ EXECUTION_SUMMARY = <<>>
    /\ last_plan_cache = NoPlan
    /\ files = {}
    /\ pc = "idle"
    /\ steps = <<>>
    /\ idx = 0
    /\ completed_steps = 0
    /\ run = NoRun
    /\ runs = 0

\* MultiAIEngine.__init__: _init_engines, then _determine_fallback_order.
\*   loaded    : the adapters whose package is installed and that construct
\*   cfgActive : config "active_engine"
\*   bal       : the balance probe of _determine_fallback_order
\*   keyed     : the loaded adapters constructed with an API key
MultiAIEngineInitWith(loaded, keyed, cfgActive, bal, fb) ==
    LET o == determine_fallback_order(loaded, FALSE, TRUE, bal)
    IN  /\ configured = keyed
        /\ adapter = NoAdapter
        /\ engines = loaded
        /\ active_engine_name = IF "groq" \in loaded /\ cfgActive # "groq"
                                THEN "groq" ELSE cfgActive
        /\ fallback_enabled = fb
        /\ fallback_order = o.order
        /\ balance_checked = o.checked
        /\ balance_available = o.available
        /\ model_stats = [e \in Engines |-> NoStat]
        /\ call = IdleCall
        /\ calls = 0
        /\ promoted = "none"
        /\ intent = NoIntent
        /\ runner = NoRunner

\* TerminalApp constructs MultiAIEngine with UI.GHOST_MODE off: _configure_api
\* reads a key until it has one, so every loaded adapter is configured.
MultiAIEngineInit(loaded, cfgActive, bal, fb) ==
    MultiAIEngineInitWith(loaded, loaded, cfgActive, bal, fb)

DispInit ==
    /\ ExecIdle
    /\ planner = NoPlanner
    /\ \E loaded \in SUBSET Engines, cfgActive \in Engines, bal \in BalOutcomes,
          fb \in BOOLEAN :
         MultiAIEngineInit(loaded, cfgActive, bal, fb)

DispNext ==
    \/ Generate
    \/ TryGenerate
    \/ Return
    \/ DeepRouterShort
    \/ DeepRouterLong
    \/ Chat
    \/ GetFix
    \/ SwitchEngine
    \/ ToggleFallback
    \/ CheckBalance

SpecDispatch == DispInit /\ [][DispNext]_vars

(***************************************************************************)
(* The adapters' generate_content under MultiAIEngine.generate_content,    *)
(* with MultiAIEngine constructed while UI.GHOST_MODE is set:              *)
(* _configure_api then asks for no key, and an adapter without one is      *)
(* loaded with _configured False.                                          *)
(***************************************************************************)
AdapterInit ==
    /\ ExecIdle
    /\ planner = NoPlanner
    /\ \E loaded \in SUBSET Engines, keyed \in SUBSET Engines, cfgActive \in Engines,
          bal \in BalOutcomes, fb \in BOOLEAN :
         /\ keyed \subseteq loaded
         /\ MultiAIEngineInitWith(loaded, keyed, cfgActive, bal, fb)

AdapterNext ==
    \/ Generate
    \/ TryGenerateObserved
    \/ Return

SpecAdapter == AdapterInit /\ [][AdapterNext]_vars

\* The executor is studied with one adapter loaded and no call in flight.
Init ==
    /\ ExecInit
    /\ planner = NoPlanner
    /\ MultiAIEngineInit({"groq"}, "groq", "ok", TRUE)

Next ==
    \/ RunAgentWorkflow
    \/ Replay
    \/ ExecStep
    \/ Finish
    \/ MainLoop
    \/ ToggleAuto
    \/ ToggleGhost
    \/ ToggleSilent
    \/ ShowSummary

Spec == Init /\ [][Next]_vars

(***************************************************************************)
(* Properties of the executor, checked under Spec.                         *)
(***************************************************************************)

\* The steps of the run in progress that were dispatched to a handler.
DispatchedSteps == {k \in DOMAIN run.trace : run.trace[k].dispatched}

\* C1: a plan of confidence below 40 has its steps dispatched only after
\* the user was asked to confirm the plan, in every mode; when the user
\* declines, no step was visited, the summary is empty and nothing was
\* written, deleted or run.
LowConfidenceNeedsConfirmation ==
    /\ (run.src = "workflow" /\ run.confidence < LowConfidence /\ DispatchedSteps # {})
            => run.lowAsked
    /\ (run.src = "workflow" /\ run.confidence < LowConfidence /\ run.status = "declined")
            => (run.trace = <<>> /\ EXECUTION_SUMMARY = <<>> /\ ~run.acted)

WellFormedSteps(st) ==
    /\ Len(st) > 0
    /\ \A k \in DOMAIN st : st[k].action \in WellFormedActions

\* C2: the plan create_plan returned (the one run_agent_workflow caches) has
\* an array of at least one well-formed step, and so have the steps the
\* workflow hands to execute_plan_with_progress.
PlannerRejectsEmptyOrMalformedSteps ==
    /\ last_plan_cache # NoPlan
            => (last_plan_cache.stepsShape = "array" /\ WellFormedSteps(last_plan_cache.steps))
    /\ (pc = "exec" /\ run.src = "workflow") => WellFormedSteps(steps)

\* The entries of the current run that record the outcome of step i.
OutcomeEntries(i) ==
    {k \in DOMAIN EXECUTION_SUMMARY :
        /\ EXECUTION_SUMMARY[k].cur
        /\ ~EXECUTION_SUMMARY[k].sub
        /\ EXECUTION_SUMMARY[k].step = i}

UserStopped == \E k \in DOMAIN run.trace : run.trace[k].event = "stopped"

\* C6: a step that fails does not end the plan: when execute_plan_with_progress
\* is over every step was visited, unless the user stopped, and a step whose
\* handler raised has a failed entry in the summary.
NoStepFailureAbortsPlan ==
    /\ (pc = "returned" /\ run.status \in {"finished", "aborted"})
            => (Len(run.trace) = Len(steps) \/ UserStopped)
    /\ pc = "exec"
            => \A i \in DOMAIN run.trace :
                  run.trace[i].event = "raised"
                      => \E k \in OutcomeEntries(i) : EXECUTION_SUMMARY[k].status = "fail"

\* C8: every step the loop has processed has exactly one outcome entry in
\* the summary, the runner's own entries not counted.
OneOutcomeEntryPerStep ==
    pc = "exec" => \A i \in DOMAIN run.trace : Cardinality(OutcomeEntries(i)) = 1

\* The events after which a step's outcome is `applied`.
AppliedEvents == {"written", "deleted", "cmd_true", "analyzed"}

\* C9: completed_steps is the number of steps whose outcome is applied.
CompletedCountsApplied ==
    completed_steps =
        Cardinality({k \in DOMAIN run.trace : run.trace[k].event \in AppliedEvents})

\* C10: with auto mode and ghost mode off, every step the loop visits was
\* preceded by the allow/decline/skip prompt; a declined step is the last
\* one visited and is not dispatched; a skipped step is not dispatched.
EveryStepAskedWhenAttended ==
    (pc = "exec" /\ ~auto_mode /\ ~GHOST_MODE)
        => \A k \in DOMAIN run.trace :
              /\ run.trace[k].asked
              /\ run.trace[k].event = "stopped" => k = Len(run.trace)
              /\ run.trace[k].event \in {"stopped", "skipped"} => ~run.trace[k].dispatched

(***************************************************************************)
(* Properties of the dispatcher, checked under SpecDispatch.               *)
(***************************************************************************)

\* The step ends one adapter-level generate_content: the retry loop of
\* call.target returns instead of going to its next iteration.
AttemptEnds ==
    /\ call.pos = "try"
    /\ ~(call'.pos = "try" /\ call'.attempt = call.attempt + 1)

\* C3: the step that ends an adapter's generate_content makes exactly one
\* update of that adapter's stats, a success or a failure, in the forced, the
\* active and the fallback branch alike; the iterations before it make none.
EveryAttemptUpdatesStatsOnce ==
    [][/\ AttemptEnds
            => \E success \in BOOLEAN :
                  model_stats' = update_model_stat(model_stats, call.target, success)
       /\ (call.pos = "try" /\ ~AttemptEnds) => model_stats' = model_stats]_vars

Balanced(stat) == stat.successes + stat.failures = stat.requests

\* One update of the stats of e: one more request, and one more success or
\* one more failure.
StatStep(e) ==
    /\ model_stats'[e].requests = model_stats[e].requests + 1
    /\ \/ /\ model_stats'[e].successes = model_stats[e].successes + 1
          /\ model_stats'[e].failures = model_stats[e].failures
       \/ /\ model_stats'[e].successes = model_stats[e].successes
          /\ model_stats'[e].failures = model_stats[e].failures + 1
    /\ \A o \in Engines \ {e} : model_stats'[o] = model_stats[o]

\* C4: successes + failures = requests for every key in every reachable
\* state, and every step that changes the stats is one update of one key.
StatsBalanced ==
    /\ [](\A e \in Engines : Balanced(model_stats[e]))
    /\ [][model_stats' # model_stats => \E e \in Engines : StatStep(e)]_vars

\* An adapter has been updated twice, once as a success and once as a failure.
StatsBalancedWitness ==
    \E e \in Engines :
        model_stats[e] = [requests |-> 2, successes |-> 1, failures |-> 1]

\* A fallback adapter's success ends the call.
FallbackSucceeded ==
    call.pos = "done" /\ call.stage = "fallback" /\ call.result # "none"

\* The adapter that succeeded was the active one when the call began.
ActiveSucceeded == call.pos = "done" /\ call.result = call.active0

IntentIsCategory ==
    intent # NoIntent => intent \in {Token(w) : w \in IntentCategory}

(***************************************************************************)
(* Further properties of the executor, checked under Spec.                 *)
(***************************************************************************)

\* run_agent_workflow got a plan, previewed it and came to the gate.
AtGate == pc = "idle" /\ run'.src = "workflow" /\ run'.status \in {"running", "declined"}

\* C11: a workflow run with confidence of 40 or more, auto mode and ghost
\* mode off, asks the whole-plan confirmation once and nothing else; on y or
\* auto the plan is executed, on any other answer no step is visited, the
\* summary is empty and nothing has been written, deleted or run.
PlanConfirmedOnce ==
    [][(AtGate /\ run'.confidence >= LowConfidence /\ ~auto_mode /\ ~GHOST_MODE)
          => /\ run'.planAsked /\ ~run'.lowAsked
             /\ IF run'.answer \in {"y", "auto"}
                THEN pc' = "exec" /\ run'.trace = <<>>
                ELSE /\ pc' = "returned" /\ run'.status = "declined"
                     /\ steps' = <<>> /\ run'.trace = <<>> /\ ~run'.acted
                     /\ EXECUTION_SUMMARY' = <<>>]_vars

\* The user answered no to the whole-plan confirmation.
PlanDeclinedWitness ==
    /\ run.status = "declined"
    /\ run.planAsked
    /\ run.answer = "n"
    /\ run.confidence >= LowConfidence

(***************************************************************************)
(* The command runner, one iteration of its loop at a time: the executor   *)
(* is at the command step of a one-step plan the user confirmed.           *)
(***************************************************************************)
CommandPlan ==
    PlanShape("object", "array", <<[action |-> "command", path |-> "app.py"]>>, 85)

RunnerInit ==
    /\ planner = NoPlanner
    /\ auto_mode \in BOOLEAN
    /\ GHOST_MODE \in BOOLEAN
    /\ SILENT_ERRORS = TRUE
    /\ EXECUTION_SUMMARY = <<>>
    /\ last_plan_cache = CommandPlan
    /\ files = {}
    /\ pc = "exec"
    /\ steps = CommandPlan.steps
    /\ idx = 1
    /\ completed_steps = 0
    /\ run = [RunRecord("workflow", CommandPlan.confidence) EXCEPT
                 !.planAsked = ~auto_mode /\ ~GHOST_MODE,
                 !.answer = IF auto_mode \/ GHOST_MODE THEN "-" ELSE "y"]
    /\ runs = 1
    /\ MultiAIEngineInit({"groq"}, "groq", "ok", TRUE)

RunnerFrame ==
    UNCHANGED <<auto_mode, GHOST_MODE, SILENT_ERRORS, last_plan_cache, files, pc,
                steps, run, runs, dispVars, configured, adapter, planner>>

\* The command branch calls run_command_with_ai_install(cmd).
RunCommand ==
    /\ pc = "exec" /\ idx = 1 /\ steps[idx].action = "command"
    /\ runner.result = "idle"
    /\ runner' = RunnerStart
    /\ RunnerFrame
    /\ UNCHANGED <<EXECUTION_SUMMARY, idx, completed_steps>>

\* One iteration of the runner's loop.
RunnerAttempt ==
    /\ runner.result = "running"
    /\ \E in \in AttemptInputs : runner' = RunnerIteration(in, GHOST_MODE, runner)
    /\ RunnerFrame
    /\ UNCHANGED <<EXECUTION_SUMMARY, idx, completed_steps>>

\* The runner returned: the rest of the command branch.
CommandBranch ==
    /\ pc = "exec" /\ idx = 1
    /\ runner.result \in {"true", "false"}
    /\ LET b == command_branch(runner, EXECUTION_SUMMARY, completed_steps, idx)
       IN  /\ completed_steps' = b.completed_steps
           /\ EXECUTION_SUMMARY' = b.summary
    /\ idx' = idx + 1
    /\ RunnerFrame
    /\ UNCHANGED runner

RunnerNext ==
    \/ RunCommand
    \/ RunnerAttempt
    \/ CommandBranch

SpecRunner == RunnerInit /\ [][RunnerNext]_vars

(***************************************************************************)
(* Properties of the command runner, checked under SpecRunner.             *)
(***************************************************************************)

\* C12: in the log of the commands the runner ran, the command that follows
\* the install command is the original command.
OriginalCommandAfterInstall ==
    \A k \in DOMAIN runner.log :
        (runner.log[k] = InstallCmd /\ k < Len(runner.log)) => runner.log[k + 1] = 0

\* The target commands (the original one or a substituted one) in the log.
TargetRuns == {k \in DOMAIN runner.log : runner.log[k] # InstallCmd}

\* C13: the runner executes a target command at most max_retries + 1 times
\* and its loop variable stays in 0..max_retries; every iteration either
\* returns or moves the loop variable up, so the loop ends.
RunnerBounded ==
    /\ [](/\ Cardinality(TargetRuns) <= max_retries + 1
          /\ runner.attempt \in 0..max_retries)
    /\ [][runner.result = "running"
            => \/ runner'.result \in {"true", "false"}
               \/ runner'.attempt = runner.attempt + 1]_vars

\* The runner used every attempt: max_retries + 1 target commands were run.
RunnerBoundedWitness ==
    /\ runner.result = "false"
    /\ Cardinality(TargetRuns) = max_retries + 1
    /\ runner.fix_reqs > 0 /\ runner.install_reqs > 0

\* The command branch is over.
BranchDone == idx = 2

\* The step was recorded as failed and not counted.
RecordedFailed ==
    /\ completed_steps = 0
    /\ \E k \in DOMAIN EXECUTION_SUMMARY :
          /\ ~EXECUTION_SUMMARY[k].sub
          /\ EXECUTION_SUMMARY[k].action = "Failed command"
          /\ EXECUTION_SUMMARY[k].status = "fail"

\* C14: when the first attempt fails with a "not found" stderr and the
\* install-command request returns nothing, the runner has run the original
\* command once and nothing else, made that one request and no fix request,
\* returned false, and the step is recorded as failed.
NoInstallCommandStops ==
    /\ runner.install_none > 0
          => (runner.result = "false" /\ runner.install_none = 1
              /\ runner.log[Len(runner.log)] # InstallCmd)
    /\ (runner.install_none > 0 /\ runner.attempt = 0)
          => (runner.log = <<0>> /\ runner.install_reqs = 1 /\ runner.fix_reqs = 0)
    /\ (runner.install_none > 0 /\ BranchDone) => RecordedFailed

NoInstallCommandWitness ==
    /\ runner.install_none = 1
    /\ runner.attempt = 0
    /\ BranchDone
    /\ RecordedFailed

\* C15: a command that exits 0 on the first attempt makes the runner return
\* true with no install-command request, no fix request and no install run,
\* and the step is counted as completed.
FirstAttemptSuccess ==
    (runner.result = "true" /\ runner.attempt = 0)
        => /\ runner.log = <<0>>
           /\ runner.install_reqs = 0 /\ runner.fix_reqs = 0 /\ runner.asked = 0
           /\ BranchDone => (completed_steps = 1 /\ EXECUTION_SUMMARY = <<>>)

FirstAttemptSuccessWitness ==
    /\ runner.result = "true"
    /\ runner.attempt = 0
    /\ BranchDone
    /\ completed_steps = 1


(***************************************************************************)
(* The order of the attempts of one generate_content call.  call.tried     *)
(* holds, in order, the adapters whose generate_content the call invoked   *)
(* and the branch that invoked each.                                       *)
(***************************************************************************)
StageRank(s) == CASE s = "forced" -> 1 [] s = "active" -> 2 [] OTHER -> 3

RECURSIVE IndexOf(_, _)
IndexOf(order, e) ==
    IF order = <<>> THEN 0
    ELSE IF order[Len(order)] = e /\ IndexOf(SubSeq(order, 1, Len(order) - 1), e) = 0
    THEN Len(order)
    ELSE IndexOf(SubSeq(order, 1, Len(order) - 1), e)

\* C16: a call attempts the forced adapter, then the active adapter, then the
\* adapters that remain (those it has not attempted yet) in the recomputed
\* fallback order; it returns at the first success, the last adapter attempted.
AttemptsInOrder ==
    LET t == call.tried
    IN  /\ \A i \in 1..Len(t) :
              /\ t[i].stage = "forced" => i = 1 /\ t[i].name = call.force
              /\ t[i].stage = "active" => t[i].name = call.active0
              /\ t[i].stage = "fallback" => IndexOf(fallback_order, t[i].name) > 0
        /\ \A i, j \in 1..Len(t) :
              i < j =>
                /\ StageRank(t[i].stage) <= StageRank(t[j].stage)
                /\ t[i].stage # "fallback" => t[i].stage # t[j].stage
                /\ t[j].stage = "fallback" =>
                     /\ t[j].name # t[i].name
                     /\ t[i].stage = "fallback" =>
                          IndexOf(fallback_order, t[i].name)
                              < IndexOf(fallback_order, t[j].name)
        /\ call.pos = "done" /\ call.result # "none" =>
              t # <<>> /\ t[Len(t)].name = call.result


\* No adapter's generate_content returned a text in this step.
NoSuccess == \A e \in Engines : model_stats'[e].successes = model_stats[e].successes

\* C17: a call in which no adapter succeeds (every adapter attempted failed,
\* or none could be attempted) goes on to the next attempt or returns
\* (None, None); it ends in no other way.
NoneWhenAllFail ==
    [][(call.pos \in {"idle", "try"} /\ call'.pos # "idle" /\ NoSuccess) =>
          \/ call'.pos = "try"
          \/ call'.pos = "done" /\ call'.result = "none"]_vars

NoneWhenAllFailWitness ==
    /\ call.pos = "done"
    /\ call.result = "none"
    /\ Len(call.tried) >= 2
    /\ \E i \in 1..Len(call.tried) : call.tried[i].stage = "fallback"


\* This step recomputed the fallback order (generate_content reached
\* "self.fallback_order = self._determine_fallback_order()").
Recomputed ==
    /\ call.pos \in {"idle", "try"}
    /\ call.stage # "fallback"
    /\ fallback_enabled
    /\ \/ call'.pos = "try" /\ call'.stage = "fallback"
       \/ call'.pos = "done" /\ call'.result = "none"

\* The adapter this step begins to attempt, "none" if it begins no attempt.
Attempted ==
    IF call'.tried # call.tried /\ call'.tried # <<>>
    THEN call'.tried[Len(call'.tried)].name
    ELSE "none"

\* C18: generate_content attempts no adapter that is flagged unavailable
\* (DeepSeek with balance_available False), in no branch; the adapter's own
\* _unsafe_generate sends no generation request either; and a recomputed
\* fallback order does not hold a flagged adapter.
FlaggedNeverAttempted ==
    /\ [][/\ Attempted = "deepseek" => balance_available'
          /\ Recomputed =>
               \A i \in 1..Len(fallback_order') :
                   fallback_order'[i] = "deepseek" => balance_available']_vars
    /\ \A c \in BOOLEAN, a \in BOOLEAN, bal \in BalOutcomes, gen \in GenOutcomes :
          unsafe_generate("deepseek", c, a, bal, gen).remote =>
              unsafe_generate("deepseek", c, a, bal, gen).available

\* A call that names the flagged DeepSeek as forced adapter went through the
\* fallback stage without attempting it.
FlaggedWitness ==
    /\ "deepseek" \in engines
    /\ ~balance_available
    /\ call.pos = "done"
    /\ call.force = "deepseek"
    /\ call.active0 = "deepseek"
    /\ call.tried # <<>>
    /\ \A i \in 1..Len(call.tried) :
          call.tried[i].stage = "fallback" /\ call.tried[i].name # "deepseek"


\* This step served a chat or get_fix_for_error request.
ServesRequest == call'.served.kind \in {"chat", "fix"} /\ call'.served.n # call.served.n

\* This step ended an adapter's generate_content in failure after exceptions.
GenerateGaveUp ==
    /\ call.pos = "try"
    /\ model_stats'[call.target].failures > model_stats[call.target].failures

\* C19: every request the dispatcher serves, through generate_content, chat
\* or get_fix_for_error, is sent to the chosen adapter up to retries times
\* while it raises and then, with fallback enabled, to another loaded adapter.
EveryRequestRetriesThenFallsBack ==
    [][/\ GenerateGaveUp => call.attempt = retries - 1
       /\ (ServesRequest /\ call'.served.out = "raise") =>
             /\ call'.served.requests = retries
             /\ (fallback_enabled /\ engines \ {active_engine_name} # {}) =>
                    call'.served.fallback]_vars


\* C20: the summary is empty when a workflow run starts executing steps,
\* while steps execute it holds entries of this execution only, and it is
\* empty again when the execution has ended, whatever the mode.
SummaryScopedToRun ==
    /\ (pc = "exec" /\ run.src = "workflow" /\ run.trace = <<>>) =>
           EXECUTION_SUMMARY = <<>>
    /\ pc = "exec" =>
           \A k \in DOMAIN EXECUTION_SUMMARY : EXECUTION_SUMMARY[k].cur
    /\ (pc = "returned" /\ run.status \in {"finished", "aborted"}) =>
           EXECUTION_SUMMARY = <<>>


\* This step is deep_router's on a prompt shorter than ShortLimit after
\* trimming.
RoutesShortPrompt == call'.short # 0 /\ call'.short # call.short

\* C21: deep_router on a prompt shorter than 3 characters after trimming
\* returns CHAT at once: no adapter is attempted, no statistic is updated
\* and the active adapter is unchanged.
ShortPromptIsChat ==
    [][RoutesShortPrompt =>
          /\ intent' = Token("CHAT")
          /\ call'.pos = "idle"
          /\ call'.tried = <<>>
          /\ model_stats' = model_stats
          /\ active_engine_name' = active_engine_name
          /\ UNCHANGED <<fallback_order, balance_checked, balance_available>>]_vars

\* A short prompt was routed after an earlier request updated the statistics.
ShortPromptWitness ==
    /\ call.short = 2
    /\ intent = Token("CHAT")
    /\ \E e \in Engines : model_stats[e].requests > 0


\* C22: generate_content of an adapter without a key returns at its first
\* pass with nothing: it sends no remote request, does not retry and does not
\* sleep; the dispatcher then attempts the next adapter or, with none left,
\* returns (None, None).
UnconfiguredFailsFast ==
    [][(call.pos = "try" /\ call.target \notin configured) =>
          /\ adapter' = [NoAdapter EXCEPT !.name = call.target, !.tries = 1,
                                          !.out = "empty", !.returned = TRUE]
          /\ model_stats' = model_stats
          /\ \/ call'.pos = "done" /\ call'.result = "none"
             \/ /\ call'.pos = "try"
                /\ Len(call'.tried) = Len(call.tried) + 1
                /\ call'.attempt = 0]_vars

\* The dispatcher went from an adapter without a key to the next adapter.
UnconfiguredWitness ==
    /\ adapter.name \in engines \ configured
    /\ adapter.returned
    /\ call.pos = "try"
    /\ Len(call.tried) >= 2
    /\ call.tried[Len(call.tried) - 1].name = adapter.name
    /\ call.target \in configured


(***************************************************************************)
(* The planner alone: create_plan applied to every response.               *)
(***************************************************************************)
PlanInit ==
    /\ ExecIdle
    /\ MultiAIEngineInit({"groq"}, "groq", "ok", TRUE)
    /\ \E resp \in DataResponses : planner = [NoPlanner EXCEPT !.pos = "called", !.resp = resp]

\* create_plan returns (or raises).
CreatePlan ==
    /\ planner.pos = "called"
    /\ LET r == create_plan_data(planner.resp)
       IN  planner' = [planner EXCEPT !.pos = IF r.ret = "raise" THEN "raised" ELSE "returned",
                                      !.ret = r.ret, !.plan = r.plan]
    /\ UNCHANGED <<execVars, dispVars, runner, configured, adapter>>

\* run_agent_workflow caches the plan it was given and gates on it.
GatePlan ==
    /\ planner.pos = "returned"
    /\ planner.ret = "plan"
    /\ planner' = [planner EXCEPT !.pos = "gated",
                                  !.cache = planner.plan,
                                  !.gate = gate_on(planner.resp.kind, planner.plan)]
    /\ UNCHANGED <<execVars, dispVars, runner, configured, adapter>>

\* The state is saved, the program exits and is started again.
\* planner.cache is persistence.last_plan_cache.
Restart ==
    /\ planner.pos = "gated"
    /\ LET persisted == save(planner.cache, EXECUTION_SUMMARY)
       IN  /\ planner' = [planner EXCEPT !.pos = "restarted",
                                         !.cache = load_plan(persisted)]
           /\ EXECUTION_SUMMARY' = load_summary(persisted)
    /\ UNCHANGED <<auto_mode, GHOST_MODE, SILENT_ERRORS, last_plan_cache, files, pc,
                   steps, idx, completed_steps, run, runs, dispVars, runner,
                   configured, adapter>>

PlanNext == CreatePlan \/ GatePlan \/ Restart

SpecPlan == PlanInit /\ [][PlanNext]_vars

PlanReturned == planner.pos = "returned" /\ planner.ret = "plan"

\* C23: a plan create_plan returns holds the four optional fields: its
\* fallback value for each one the response lacks, the response's value for
\* each one it holds, and the other fields as the response gives them.
PlanHasOptionalFields ==
    PlanReturned =>
        \A k \in PlanKeys :
            planner.plan[k] = IF k \in OptionalKeys /\ planner.resp.data[k] = Absent
                              THEN DefaultOf(k)
                              ELSE planner.resp.data[k]


Risks == {JStr("Low"), JStr("Medium"), JStr("High")}

\* C24: a plan create_plan returns, and so a plan run_agent_workflow gates
\* on, has an integer confidence within 0..100 and a risk among Low, Medium
\* and High.
PlanFieldsInRange ==
    (planner.pos \in {"returned", "gated"} /\ planner.ret = "plan") =>
        /\ planner.plan.confidence.t = "int"
        /\ planner.plan.confidence.n \in 0..100
        /\ planner.plan.risk \in Risks


\* C25: saving a plan and the summary and loading them again gives the same
\* field values.
PlanSurvivesReload ==
    [][(planner.pos = "gated" /\ planner'.pos = "restarted") =>
          /\ planner'.cache = planner.cache
          /\ EXECUTION_SUMMARY' = EXECUTION_SUMMARY]_vars


LastAttemptRecordsFailure ==
    /\ [](runner.install_reqs + runner.fix_reqs <= max_retries)
    /\ [][(/\ runner.result = "running"
           /\ runner.attempt = max_retries
           /\ runner'.result = "false") =>
             /\ runner'.entries = Append(runner.entries, "Failed command")
             /\ runner'.detail \in 0..DetailLimit
             /\ runner'.install_reqs = runner.install_reqs
             /\ runner'.fix_reqs = runner.fix_reqs
             /\ runner'.asked = runner.asked
             /\ runner'.log = Append(runner.log, runner.current_cmd)]_vars

\* The last attempt failed with a long stderr after max_retries requests.
LastAttemptWitness ==
    /\ runner.result = "false"
    /\ runner.attempt = max_retries
    /\ runner.install_reqs + runner.fix_reqs = max_retries
    /\ runner.detail = DetailLimit
    /\ runner.entries # <<>>


\* An iteration that ran the command, saw it fail before the last attempt and
\* made no install-command request: the generic failure.
GenericFailure ==
    /\ runner.result = "running"
    /\ runner.attempt < max_retries
    /\ runner'.log = Append(runner.log, runner.current_cmd)
    /\ runner'.result # "true"
    /\ runner'.install_reqs = runner.install_reqs

\* C28: on a generic failure before the last attempt the runner asks
\* get_fix_for_error once, with the command that just failed; a replacement
\* becomes the command of the next attempt, and every attempt executes the
\* command current at its start; with no replacement the runner returns False
\* at once.
FixReplacesCommand ==
    /\ [][GenericFailure =>
            /\ runner'.fix_reqs = runner.fix_reqs + 1
            /\ runner'.fix_args = Append(runner.fix_args, runner.current_cmd)
            /\ \/ /\ runner'.result = "running"
                  /\ runner'.attempt = runner.attempt + 1
                  /\ runner'.current_cmd = runner'.fix_reqs
               \/ /\ runner'.result = "false"
                  /\ runner'.attempt = runner.attempt
                  /\ runner'.current_cmd = runner.current_cmd]_vars
    /\ [][(runner.result = "running" /\ runner'.log # runner.log) =>
            runner'.log[Len(runner.log) + 1] = runner.current_cmd]_vars

\* Two fixes replaced the command in turn, and the third request got none.
FixReplacesWitness ==
    /\ runner.result = "false"
    /\ runner.fix_args = <<0, 1, 2>>
    /\ runner.log = <<0, 1, 2>>
    /\ runner.attempt = 2


\* The last element of a non-empty sequence.
Last(seq) == seq[Len(seq)]

\* C29: when the install command exits non-zero, or the answer to the
\* install question is not "y", the runner returns False, and after it has
\* returned False no command is executed again; a declined install command is
\* not executed either.
InstallFailureStops ==
    /\ [][(runner'.inst_exits # runner.inst_exits /\ Last(runner'.inst_exits) # 0) =>
            /\ runner'.result = "false"
            /\ runner'.attempt = runner.attempt]_vars
    /\ [][(runner'.answers # runner.answers /\ Last(runner'.answers) # "y") =>
            /\ runner'.result = "false"
            /\ runner'.attempt = runner.attempt
            /\ runner'.inst_exits = runner.inst_exits
            /\ runner'.log = Append(runner.log, runner.current_cmd)]_vars
    /\ [][runner.result = "false" => runner' = runner]_vars

\* A substituted command hit a missing dependency, the accepted install
\* command failed, and the step was closed as failed.
InstallFailureWitness ==
    /\ runner.result = "false"
    /\ runner.answers = <<"y">>
    /\ runner.inst_exits = <<1>>
    /\ runner.log = <<0, 1, InstallCmd>>
    /\ idx = 2

\* An install command succeeded, and the next one was declined.
InstallDeclinedReached ==
    /\ runner.result = "false"
    /\ runner.answers = <<"y", "n">>
    /\ runner.inst_exits = <<0>>
    /\ idx = 2


\* C30: with auto_mode or GHOST_MODE on, an iteration that obtained an
\* install command executes it and reads no answer from the user.
UnattendedInstallUnasked ==
    [][(/\ auto_mode \/ GHOST_MODE
        /\ runner.result = "running"
        /\ runner'.install_reqs = runner.install_reqs + 1
        /\ runner'.install_none = runner.install_none) =>
          /\ runner'.asked = runner.asked
          /\ runner'.answers = runner.answers
          /\ Len(runner'.inst_exits) = Len(runner.inst_exits) + 1]_vars

\* With GHOST_MODE on alone the install command is executed unasked.
GhostInstallUnasked ==
    [][(/\ GHOST_MODE
        /\ runner.result = "running"
        /\ runner'.install_reqs = runner.install_reqs + 1
        /\ runner'.install_none = runner.install_none) =>
          /\ runner'.asked = runner.asked
          /\ runner'.answers = runner.answers
          /\ Len(runner'.inst_exits) = Len(runner.inst_exits) + 1]_vars


(***************************************************************************)
(* The completion bands: the executor runs a confirmed plan of up to       *)
(* MaxBandSteps steps, each an analyze step (counted) or a step of an      *)
(* unknown action (not counted), in silent mode.                           *)
(***************************************************************************)
MaxBandSteps == 10

BandPlans ==
    {PlanShape("object", "array", st, 85) :
        st \in SeqsUpTo({[action |-> a, path |-> "app.py"] : a \in {"analyze", "other"}},
                        MaxBandSteps)}

BandInit ==
    /\ planner = NoPlanner
    /\ auto_mode = FALSE
    /\ GHOST_MODE = FALSE
    /\ SILENT_ERRORS = TRUE
    /\ EXECUTION_SUMMARY = <<>>
    /\ last_plan_cache \in BandPlans
    /\ files = {}
    /\ pc = "exec"
    /\ steps = last_plan_cache.steps
    /\ idx = 1
    /\ completed_steps = 0
    /\ run = [RunRecord("workflow", last_plan_cache.confidence) EXCEPT
                 !.planAsked = TRUE, !.answer = "y"]
    /\ runs = 1
    /\ MultiAIEngineInit({"groq"}, "groq", "ok", TRUE)

BandNext ==
    \/ StepAnalyze
    \/ StepNoBranch
    \/ Finish

SpecBand == BandInit /\ [][BandNext]_vars

\* The step that leaves the loop and prints the completion line.
Classifies == pc = "exec" /\ run'.status = "finished"

\* C31: the completion line says Excellent iff completed*100/total >= 90,
\* Good iff it is in [70, 90), Partial iff in [50, 70), Poor otherwise, with
\* a plan of zero steps rated 0 (Poor); the step that prints it leaves the
\* active adapter, the stats, the plan cache and auto mode as they were.
CompletionBands ==
    [][Classifies =>
         LET c == completed_steps
             t == Len(steps)
             pct == IF t = 0 THEN 0 ELSE c * 100
             of == IF t = 0 THEN 1 ELSE t
         IN  /\ run'.band = "Excellent" <=> pct >= 90 * of
             /\ run'.band = "Good" <=> (pct >= 70 * of /\ pct < 90 * of)
             /\ run'.band = "Partial" <=> (pct >= 50 * of /\ pct < 70 * of)
             /\ run'.band = "Poor" <=> pct < 50 * of
             /\ t = 0 => run'.band = "Poor"
             /\ UNCHANGED <<active_engine_name, model_stats, last_plan_cache,
                            auto_mode, fallback_order, completed_steps>>]_vars

\* Nine of ten steps completed: exactly on the Excellent threshold.
CompletionBandsWitness ==
    /\ run.status = "finished"
    /\ Len(steps) = 10
    /\ completed_steps = 9
    /\ run.band = "Excellent"


\* A step of a generate_content call.
InGenerate == call.pos # "idle" \/ call'.pos # "idle"

\* C32: with fallback disabled a generate_content call attempts only the
\* forced adapter and the adapter that was active when it started, returns
\* one of them or (None, None), and leaves the active adapter and the
\* fallback order as they were.
NoFallbackWhenDisabled ==
    /\ [](~fallback_enabled /\ call.pos # "idle" =>
            /\ \A i \in DOMAIN call.tried :
                  \/ call.tried[i] = [stage |-> "forced", name |-> call.force]
                  \/ call.tried[i] = [stage |-> "active", name |-> call.active0]
            /\ call.pos = "done" => call.result \in {"none", call.force, call.active0}
            /\ active_engine_name = call.active0)
    /\ [][(~fallback_enabled /\ InGenerate) =>
            /\ fallback_order' = fallback_order
            /\ active_engine_name' = active_engine_name
            /\ fallback_enabled' = fallback_enabled]_vars

\* With three adapters loaded and fallback disabled, the forced and the
\* active adapter failed and the call returned (None, None) without
\* attempting the third.
NoFallbackWitness ==
    /\ ~fallback_enabled
    /\ engines = Engines
    /\ call.pos = "done"
    /\ call.result = "none"
    /\ Len(call.tried) = 2
    /\ call.tried[1].name # call.tried[2].name


\* C33: while a plan is executed the cached plan and the step sequence stay
\* as they are, the sequence executed is the cached plan's, the k-th
\* iteration visits the k-th step, and a replay starts on the cached plan's
\* steps.
ExecutionReadsPlanOnly ==
    /\ [][pc = "exec" => (last_plan_cache' = last_plan_cache /\ steps' = steps)]_vars
    /\ [](pc = "exec" => steps = last_plan_cache.steps)
    /\ [](pc = "exec" /\ idx <= Len(steps) => Len(run.trace) = idx - 1)
    /\ [][(pc = "idle" /\ pc' = "exec" /\ run'.src = "replay") =>
            (steps' = last_plan_cache.steps /\ last_plan_cache' = last_plan_cache)]_vars

\* A replay has gone through the two steps of the plan a workflow run
\* executed before it.
ReplayedSamePlanWitness ==
    /\ run.src = "replay"
    /\ run.status = "finished"
    /\ runs = 2
    /\ Len(steps) = 2
    /\ Len(run.trace) = 2
    /\ steps[1].action # steps[2].action
    /\ steps = last_plan_cache.steps


\* C34: no step of a plan the user declined at the gate is dispatched
\* afterwards, by the replay command either, unless a prompt was answered
\* for it.
DeclinedPlanStaysUnexecuted ==
    (run.src = "replay" /\ run.declined) =>
        \A k \in DOMAIN run.trace : run.trace[k].dispatched => run.trace[k].asked


\* C35: whenever at least one adapter is loaded, the active adapter name is
\* the name of a loaded adapter.
ActiveIsLoaded == engines # {} => active_engine_name \in engines


\* C36: within one generate_content call no adapter is attempted twice.
EachAdapterOnce ==
    \A i, j \in DOMAIN call.tried :
        i # j => call.tried[i].name # call.tried[j].name


\* C37: a step of a generate_content call changes the active adapter only
\* when the adapter attempted in the fallback loop succeeds, and then to that
\* adapter; a call that returns the forced or the active adapter's result, or
\* (None, None), returns with the active adapter it started with.
OnlyFallbackSuccessSwitches ==
    /\ [][(InGenerate /\ active_engine_name' # active_engine_name) =>
            /\ call.pos = "try"
            /\ call.stage = "fallback"
            /\ fallback_enabled
            /\ call'.pos = "done"
            /\ call'.result = call.target
            /\ active_engine_name' = call.target]_vars
    /\ [](call.pos = "done" =>
            LET last == call.tried[Len(call.tried)]
            IN  \/ call.result = "none"
                \/ (call.tried # <<>> /\ last.stage \in {"forced", "active"})
                => active_engine_name = call.active0)

\* The forced adapter, not the active one, succeeded and the active adapter
\* is the one the call started with.
ForcedSuccessWitness ==
    /\ call.pos = "done"
    /\ call.force # "none"
    /\ call.result = call.force
    /\ call.force # call.active0
    /\ call.active0 \in engines
    /\ call.tried = <<[stage |-> "forced", name |-> call.force]>>
    /\ active_engine_name = call.active0


\* C38: the runner executes an install command only in ghost mode or right
\* after the answer "y" to the prompt for it; an answer other than "y" is the
\* last thing the run reads, and the run ends without executing the command.
InstallNeedsConsent ==
    /\ [][Len(runner'.inst_exits) > Len(runner.inst_exits) =>
            \/ GHOST_MODE
            \/ runner'.answers = Append(runner.answers, "y")]_vars
    /\ [](\A k \in DOMAIN runner.answers :
            runner.answers[k] # "y" =>
              /\ k = Len(runner.answers)
              /\ runner.result = "false")
    /\ [](~GHOST_MODE =>
            Len(runner.inst_exits)
              = Cardinality({k \in DOMAIN runner.answers : runner.answers[k] = "y"}))
    /\ [](GHOST_MODE => runner.answers = <<>>)

\* Ghost mode off: one install command was accepted and executed, the next
\* one was declined and not executed.
InstallConsentWitness ==
    /\ ~GHOST_MODE
    /\ runner.result = "false"
    /\ runner.answers = <<"y", "n">>
    /\ runner.log = <<0, InstallCmd, 0>>
    /\ Len(runner.inst_exits) = 1


\* The auto command at the prompt: nothing but auto_mode changes.
ExplicitToggle == pc = "idle" /\ pc' = "idle" /\ run' = run /\ runs' = runs

\* C39: the answer "auto" to the whole-plan prompt turns auto mode on; auto
\* mode goes off only by the auto command; while it is on, a workflow whose
\* plan has a confidence of LowConfidence or more shows no plan prompt, and
\* no iteration of the step loop shows the per-step prompt.
AutoModeSticks ==
    /\ [][(pc = "idle" /\ run'.src = "workflow" /\ run'.planAsked
             /\ run'.answer = "auto") =>
            (auto_mode' /\ pc' = "exec")]_vars
    /\ [][(auto_mode /\ ~auto_mode') => ExplicitToggle]_vars
    /\ [][(auto_mode /\ pc = "idle" /\ run'.src = "workflow"
             /\ run'.confidence >= LowConfidence
             /\ run'.status = "running") =>
            (~run'.planAsked /\ ~run'.lowAsked /\ run'.answer = "-" /\ pc' = "exec")]_vars
    /\ [][(auto_mode /\ pc = "exec" /\ run'.trace # run.trace) =>
            ~run'.trace[Len(run'.trace)].asked]_vars

\* Auto mode was switched on by the answer "auto" and the steps of that
\* plan were dispatched without the per-step prompt, silent mode being off.
AnsweredAutoReached ==
    /\ auto_mode /\ ~SILENT_ERRORS /\ ~GHOST_MODE
    /\ run.answer = "auto"
    /\ run.status = "finished"
    /\ run.trace # <<>>
    /\ \A k \in DOMAIN run.trace : run.trace[k].dispatched /\ ~run.trace[k].asked

\* A second workflow run in auto mode, silent mode and ghost mode off: no
\* plan prompt and no per-step prompt.
AutoModeWitness ==
    /\ auto_mode /\ ~SILENT_ERRORS /\ ~GHOST_MODE
    /\ runs = 2
    /\ run.src = "workflow"
    /\ run.confidence >= LowConfidence
    /\ ~run.planAsked
    /\ run.status = "finished"
    /\ Len(run.trace) = 2
    /\ \A k \in DOMAIN run.trace : run.trace[k].dispatched /\ ~run.trace[k].asked

====
